---- MODULE Spec2Model ----
(***************************************************************************)
(* Model of the SharePoint list connector of src/main.py: the public       *)
(* operations get_all_items and get_items_with_limit, the pagination loop  *)
(* of _fetch_items, the HTTP error handling of _make_request, the          *)
(* continuation-link lookup of _get_next_url and the record cleaning of    *)
(* _clean_item / _to_dataframe.                                            *)
(*                                                                         *)
(* Python values are modelled as tagged records [t, v]: None, a str (a     *)
(* sequence of characters or of URL tokens) or a list.  A dict is a        *)
(* function whose domain is the set of keys it holds.                      *)
(***************************************************************************)
EXTENDS Integers, Sequences, FiniteSets, TLC

(* ----------------------------- bounds ---------------------------------- *)

\* Longest chain of pages the server serves to one fetch.
MaxRequests == 2

\* The limits passed to get_items_with_limit range over MinLimit..MaxLimit.
MaxLimit == 2

MinLimit == 0 - 2

(* ------------------------- Python values ------------------------------- *)

None == [t |-> "None", v |-> <<>>]

PyStr(s) == [t |-> "str", v |-> s]

PyList(l) == [t |-> "list", v |-> l]

\* Marks a key that the dict under construction does not hold.
Absent == [t |-> "absent", v |-> <<>>]

\* Python truth value of None, a str or a list.
Truthy(x) == x.t # "None" /\ Len(x.v) > 0

\* Python's  a or b : a when a is truthy, otherwise b.
PyOr(a, b) == IF Truthy(a) THEN a ELSE b

\* dict.get(key, default)
DictGet(d, key, default) == IF key \in DOMAIN d THEN d[key] ELSE default

\* str.startswith(prefix) on sequences of characters.
StartsWith(s, prefix) ==
    /\ Len(s) >= Len(prefix)
    /\ \A i \in 1..Len(prefix) : s[i] = prefix[i]

(* ------------------------- URL builder --------------------------------- *)

LIST_TITLE ==
    << "R", "A", "4", "-", "1", " ", "S", "o", "l", "i", "c", "i", "t", "u",
       "d", " ", "p", "a", "r", "a", " ", "V", "i", "a", "j", "e", "s" >>

SITE_URL == "https://sgi.cedia.org.ec"

\* Characters urllib.parse.quote never encodes (of the letters, those of
\* LIST_TITLE), plus its default safe "/".
QuoteSafe ==
    { "A", "R", "S", "V", "a", "c", "d", "e", "i", "j", "l", "o", "p", "r",
      "s", "t", "u", "0", "1", "2", "3", "4", "5", "6", "7", "8", "9",
      "_", ".", "-", "~", "/" }

\* Percent-encoding of one character that is not safe.
PctEncode(c) == CASE c = " " -> "%20" [] c = "'" -> "%27"

RECURSIVE quote(_)
quote(s) ==
    IF s = <<>> THEN <<>>
    ELSE << IF Head(s) \in QuoteSafe THEN Head(s) ELSE PctEncode(Head(s)) >>
         \o quote(Tail(s))

_base_api_url == << SITE_URL, "/_api/web" >>

_encoded_list_title == quote(LIST_TITLE)

_build_items_url ==
    _base_api_url \o << "/lists/GetByTitle('" >> \o _encoded_list_title
                  \o << "')/items" >>

DigitChars == << "0", "1", "2", "3", "4", "5", "6", "7", "8", "9" >>

RECURSIVE NatStr(_)
NatStr(n) ==
    IF n < 10 THEN << DigitChars[n + 1] >>
    ELSE NatStr(n \div 10) \o << DigitChars[(n % 10) + 1] >>

\* str(limit) as the f-string renders it.
IntStr(n) == IF n < 0 THEN << "-" >> \o NatStr(0 - n) ELSE NatStr(n)

_build_items_url_with_limit(lim) ==
    _build_items_url \o << "?$top=" >> \o IntStr(lim)

\* TRUE when _validate_limit raises ValueError.
_validate_limit_mut(lim) == lim < 0

_validate_limit(lim) == lim <= 0

(* --------------------------- records ----------------------------------- *)

KeyTitle == << "T", "i", "t", "l", "e" >>

KeyAuthorId == << "A", "u", "t", "h", "o", "r", "_", "I", "d" >>

KeyMetadata == << "_", "_", "m", "e", "t", "a", "d", "a", "t", "a" >>

KeyHidden == << "_", "x" >>

KeyOdataEtag == << "o", "d", "a", "t", "a", ".", "e", "t", "a", "g" >>

KeyAtOdataId == << "@", "o", "d", "a", "t", "a", ".", "i", "d" >>

ItemA == (KeyTitle :> "A") @@ (KeyAuthorId :> "7") @@ (KeyMetadata :> "m")

ItemB == (KeyTitle :> "B") @@ (KeyOdataEtag :> "1") @@ (KeyAtOdataId :> "2")

ItemC == (KeyHidden :> "h") @@ (KeyMetadata :> "n")

\* The  value  field of a response body: missing, JSON null, or a list.
PageValues ==
    { Absent, None, PyList(<<>>), PyList(<< ItemA >>),
      PyList(<< ItemB, ItemC >>) }

_clean_item_mut(item) == item

_clean_item(item) ==
    [ k \in { key \in DOMAIN item : ~ StartsWith(key, << "_" >>) } |-> item[k] ]

\* No DataFrame: the operation has not returned one.
NoTable == [rows |-> << >>, columns |-> {}, built |-> FALSE, warned |-> FALSE]

\* pd.DataFrame(records): one row per record, the columns are the keys seen.
DataFrame(records, warned) ==
    [ rows |-> records,
      columns |-> UNION { DOMAIN records[i] : i \in 1..Len(records) },
      built |-> TRUE, warned |-> warned ]

_to_dataframe_mut(its) ==
    DataFrame([ i \in 1..Len(its) |-> _clean_item(its[i]) ], TRUE)

\* The DataFrame returned, and whether logging.warning was called.
_to_dataframe(its) ==
    IF its = <<>>
    THEN DataFrame(<<>>, TRUE)
    ELSE DataFrame([ i \in 1..Len(its) |-> _clean_item(its[i]) ], FALSE)

(* --------------------------- responses --------------------------------- *)

NextKeys == << "__next", "odata.nextLink", "@odata.nextLink" >>

\* The continuation link a server puts in each field, when it puts one.
LinkOf(key) ==
    CASE key = "__next" -> << "U-legacy" >>
      [] key = "odata.nextLink" -> << "U-nometadata" >>
      [] OTHER -> << "U-fullmetadata" >>

\* A continuation field is missing, an empty string, or a link.
LinkValues(key, more) ==
    { Absent, PyStr(<<>>) } \cup (IF more THEN { PyStr(LinkOf(key)) } ELSE {})

\* The JSON object with the given fields; Absent fields are left out.
MkData(n, o, a, val) ==
    LET full == ("__next" :> n) @@ ("odata.nextLink" :> o)
                @@ ("@odata.nextLink" :> a) @@ ("value" :> val)
    IN [ k \in { key \in DOMAIN full : full[key].t # "absent" } |-> full[k] ]

Bodies(more) ==
    { MkData(n, o, a, val) :
        n \in LinkValues("__next", more), o \in LinkValues("odata.nextLink", more),
        a \in LinkValues("@odata.nextLink", more), val \in PageValues }

EmptyBody == MkData(Absent, Absent, Absent, Absent)

Statuses == { 200, 304, 404, 500 }

\* response.raise_for_status(): HTTPError for 4xx and 5xx.
raise_for_status(status) == 400 <= status /\ status < 600

\* The exceptions session.get raises instead of returning a response, each
\* under the name of its class: a refused connection (ConnectionError, or
\* its subclasses ProxyError and SSLError), the timeout of DEFAULT_TIMEOUT
\* seconds while connecting or while reading, a connection that breaks
\* while the body is read, whatever status line came before it
\* (ChunkedEncodingError), a body that does not decode
\* (ContentDecodingError), and a redirect loop (TooManyRedirects).
TransportExceptions ==
    { "ConnectionError", "ProxyError", "SSLError", "ConnectTimeout",
      "ReadTimeout", "ChunkedEncodingError", "ContentDecodingError",
      "TooManyRedirects" }

\* What session.get can produce: an exception exc (no response, so no
\* status, also when a status line was received before the failure), or a
\* response with a status and a body that is a JSON object or not JSON.
\* more = FALSE: the server's chain of pages ends here.
ResponsesOf(more) ==
    { [kind |-> "http", status |-> s, json |-> TRUE, body |-> b,
       exc |-> "none"] : s \in Statuses, b \in Bodies(more) }
    \cup { [kind |-> "http", status |-> s, json |-> FALSE, body |-> EmptyBody,
            exc |-> "none"] : s \in Statuses }
    \cup { [kind |-> "transport", status |-> 0, json |-> FALSE,
            body |-> EmptyBody, exc |-> x] : x \in TransportExceptions }

ResponsesMore == ResponsesOf(TRUE)

ResponsesLast == ResponsesOf(FALSE)

\* The responses the server may give to request number n of a fetch.
Responses(n) == IF n < MaxRequests THEN ResponsesMore ELSE ResponsesLast

NoError == [kind |-> "none", status |-> 0]

\* _make_request: the parsed body, or the exception that leaves it; an
\* exception of session.get is not caught and leaves as it is.
_make_request(resp) ==
    IF resp.kind = "transport"
    THEN [ok |-> FALSE, data |-> EmptyBody,
          error |-> [kind |-> resp.exc, status |-> 0]]
    ELSE IF raise_for_status(resp.status)
    THEN [ok |-> FALSE, data |-> EmptyBody,
          error |-> [kind |-> "HTTPError", status |-> resp.status]]
    ELSE IF ~ resp.json
    THEN [ok |-> FALSE, data |-> EmptyBody,
          error |-> [kind |-> "JSONDecodeError", status |-> 0]]
    ELSE [ok |-> TRUE, data |-> resp.body, error |-> NoError]

\* The field key of the body d holds a link: a string that is not empty.
HasLink(d, key) == key \in DOMAIN d /\ d[key].t = "str" /\ d[key].v # <<>>

\* The page the body d links to: the link of the first of the three fields
\* that holds one, None when no field does.
ContinuationLink(d) ==
    IF \E i \in 1..3 : HasLink(d, NextKeys[i])
    THEN d[NextKeys[CHOOSE i \in 1..3 :
                      /\ HasLink(d, NextKeys[i])
                      /\ \A j \in 1..(i - 1) : ~ HasLink(d, NextKeys[j])]]
    ELSE None

_get_next_url_legacy_only(d) == DictGet(d, "__next", None)

_get_next_url_mut(d) ==
    PyOr(DictGet(d, "odata.nextLink", None),
         PyOr(DictGet(d, "__next", None), DictGet(d, "@odata.nextLink", None)))

_get_next_url(d) ==
    PyOr(DictGet(d, "__next", None),
         PyOr(DictGet(d, "odata.nextLink", None),
              DictGet(d, "@odata.nextLink", None)))

PageValueMut(d) == DictGet(d, "value", None)

\* data.get("value", [])
PageValue(d) == DictGet(d, "value", PyList(<<>>))

\* items.extend(v): TypeError unless v is iterable.
ExtendMut(its, v) ==
    IF v.t = "list" THEN [ok |-> TRUE, items |-> v.v \o its]
    ELSE [ok |-> FALSE, items |-> its]

Extend(its, v) ==
    IF v.t = "list" THEN [ok |-> TRUE, items |-> its \o v.v]
    ELSE [ok |-> FALSE, items |-> its]

NextUrlMut(d, pag) == _get_next_url(d)

\* url = self._get_next_url(data) if paginate else None
NextUrl(d, pag) == IF pag THEN _get_next_url(d) ELSE None

(* ----------------------------- state ----------------------------------- *)

VARIABLES pc,  \* "idle", "loop" (inside _fetch_items), "done", "failed"
    op,        \* the operation called: "none", "all", "limit", "build"
    limit,     \* its limit argument
    paginate,  \* _fetch_items' paginate
    url,       \* _fetch_items' url
    items,     \* _fetch_items' accumulator
    data,      \* the body of the last page parsed
    status,    \* the status of the last response received, 0 before any
    requests,  \* the URLs requested so far, in order
    pages,     \* history: the records and the link of each page parsed so far
    table,     \* what the operation returned to its caller
    error      \* the exception that left the operation

vars ==
    << pc, op, limit, paginate, url, items, data, status, requests, pages,
       table, error >>

Init ==
    /\ pc = "idle"
    /\ op = "none"
    /\ limit = 0
    /\ paginate = FALSE
    /\ url = None
    /\ items = <<>>
    /\ data = EmptyBody
    /\ status = 0
    /\ requests = <<>>
    /\ pages = <<>>
    /\ table = NoTable
    /\ error = NoError

\* get_all_items, up to the first request.
GetAllItems ==
    /\ pc = "idle"
    /\ pc' = "loop"
    /\ op' = "all"
    /\ paginate' = TRUE
    /\ url' = PyStr(_build_items_url)
    /\ UNCHANGED << limit, items, data, status, requests, pages, table, error >>

\* get_items_with_limit(lim), up to the first request.
GetItemsWithLimit(lim) ==
    /\ pc = "idle"
    /\ op' = "limit"
    /\ limit' = lim
    /\ IF _validate_limit(lim)
       THEN /\ pc' = "failed"
            /\ error' = [kind |-> "ValueError", status |-> 0]
            /\ UNCHANGED << paginate, url >>
       ELSE /\ pc' = "loop"
            /\ paginate' = FALSE
            /\ url' = PyStr(_build_items_url_with_limit(lim))
            /\ error' = error
    /\ UNCHANGED << items, data, status, requests, pages, table >>

\* _build_items_url_with_limit(lim) called on its own.
BuildItemsUrlWithLimit(lim) ==
    /\ pc = "idle"
    /\ pc' = "done"
    /\ op' = "build"
    /\ limit' = lim
    /\ url' = PyStr(_build_items_url_with_limit(lim))
    /\ UNCHANGED << paginate, items, data, status, requests, pages, table, error >>

\* One iteration of the while loop of _fetch_items on the response resp;
\* when the loop ends, the return through _to_dataframe to the caller.
FetchPage(resp) ==
    /\ pc = "loop"
    /\ Truthy(url)
    /\ requests' = Append(requests, url.v)
    /\ status' = resp.status
    /\ LET r == _make_request(resp)
           e == Extend(items, PageValue(r.data))
           n == NextUrl(r.data, paginate)
       IN IF ~ r.ok
          THEN /\ pc' = "failed"
               /\ error' = r.error
               /\ UNCHANGED << url, items, data, pages, table >>
          ELSE /\ data' = r.data
               /\ IF ~ e.ok
                  THEN /\ pc' = "failed"
                       /\ error' = [kind |-> "TypeError", status |-> 0]
                       /\ UNCHANGED << url, items, pages, table >>
                  ELSE /\ items' = e.items
                       /\ pages' = Append(pages,
                                    [ value |-> PageValue(r.data).v,
                                      link |-> ContinuationLink(r.data) ])
                       /\ url' = n
                       /\ error' = error
                       /\ IF Truthy(n)
                          THEN pc' = "loop" /\ table' = table
                          ELSE pc' = "done" /\ table' = _to_dataframe(e.items)
    /\ UNCHANGED << op, limit, paginate >>

Next ==
    \/ GetAllItems
    \/ \E lim \in MinLimit..MaxLimit : GetItemsWithLimit(lim)
    \/ \E lim \in MinLimit..MaxLimit : BuildItemsUrlWithLimit(lim)
    \/ \E resp \in Responses(Len(requests) + 1) : FetchPage(resp)

Spec == Init /\ [][Next]_vars

(* ---------------------------- properties ------------------------------- *)

Is2xx(s) == 200 <= s /\ s < 300

RECURSIVE Flatten(_)
\* The records of a sequence of pages, page after page.
Flatten(ps) == IF ps = <<>> THEN <<>> ELSE Head(ps).value \o Flatten(Tail(ps))

\* An operation that fetches has returned to its caller.
Returned == pc = "done" /\ op \in { "all", "limit" }

\* The body of the last page parsed is in data.
PageParsed == pc \in { "loop", "done" } /\ Len(pages) >= 1

\* C1: whenever the last response received has a status that is not 2xx,
\* the fetch has failed with an HTTPError carrying that status, nothing
\* was returned to the caller, and (failed being final) no request follows.
C1_Non2xxRaisesHttpError ==
    (status # 0 /\ ~ Is2xx(status)) =>
        /\ pc = "failed"
        /\ error = [kind |-> "HTTPError", status |-> status]
        /\ table = NoTable

\* C2: when get_all_items returns, it made one request per page of the
\* chain, the first to the items URL and each next one to the link of the
\* page before, the last page has no link, and the records returned are
\* those of the pages in order, none dropped, duplicated or reordered.
C2_ChainFollowedInOrder ==
    (pc = "done" /\ op = "all") =>
        /\ Len(requests) = Len(pages)
        /\ requests[1] = _build_items_url
        /\ \A i \in 2..Len(requests) : requests[i] = pages[i - 1].link.v
        /\ \A i \in 1..(Len(pages) - 1) : Truthy(pages[i].link)
        /\ ~ Truthy(pages[Len(pages)].link)
        /\ items = Flatten(pages)
        /\ Len(table.rows) = Len(items)

C2_Witness ==
    /\ pc = "done"
    /\ op = "all"
    /\ Len(requests) = 2
    /\ Truthy(pages[1].link)
    /\ items = << ItemA, ItemB, ItemC >>

\* C3: get_items_with_limit never makes a second request, and when it
\* returns it made exactly one and returns the records of that page only,
\* whatever continuation fields the page holds.
C3_NoPaginationOneRequest ==
    (op = "limit") =>
        /\ Len(requests) <= 1
        /\ pc = "done" =>
              /\ Len(requests) = 1
              /\ requests[1] = _build_items_url_with_limit(limit)
              /\ items = pages[1].value
              /\ Len(table.rows) = Len(items)

C3_Witness ==
    /\ op = "limit"
    /\ pc = "done"
    /\ \A i \in 1..3 : HasLink(data, NextKeys[i])
    /\ items = << ItemB, ItemC >>

\* C4 as stated: for every limit <= 0 both the limited fetch and the URL
\* builder fail with ValueError and no request is made.
C4_BuilderAndFetchReject ==
    (op \in { "limit", "build" } /\ limit <= 0) =>
        /\ pc = "failed"
        /\ error.kind = "ValueError"
        /\ requests = <<>>

\* C4 amended: for every limit <= 0 get_items_with_limit fails with
\* ValueError before any request and returns nothing; the URL builder
\* itself checks nothing: it returns the URL with $top=limit for every
\* limit, and makes no request.
C4_LimitedFetchRejects ==
    /\ (op = "limit" /\ limit <= 0) =>
          /\ pc = "failed"
          /\ error.kind = "ValueError"
          /\ requests = <<>>
          /\ table = NoTable
    /\ (op = "limit" /\ limit > 0) => error.kind # "ValueError"
    /\ (op = "build") =>
          /\ pc = "done"
          /\ error = NoError
          /\ requests = <<>>
          /\ url = PyStr(_build_items_url_with_limit(limit))

C4_Witness == op = "limit" /\ limit = 0 /\ pc = "failed"

\* C5 as stated: after a page of a paginated fetch the next URL is the
\* value of the first of the three fields that is present, and the fetch
\* ends only when none is present.
C5_FirstPresentField ==
    (PageParsed /\ paginate) =>
        /\ \A i \in 1..3 :
              ( /\ NextKeys[i] \in DOMAIN data
                /\ \A j \in 1..(i - 1) : NextKeys[j] \notin DOMAIN data )
              => url = data[NextKeys[i]]
        /\ (pc = "done") => \A i \in 1..3 : NextKeys[i] \notin DOMAIN data

\* C5 amended: after a page of a paginated fetch the next URL is the value
\* of the first of the three fields, in the order __next, odata.nextLink,
\* @odata.nextLink, that holds a non-empty value; a field that is absent
\* or empty is passed over, and the fetch ends exactly when no field holds
\* a non-empty value.
C5_FirstNonEmptyField ==
    (PageParsed /\ paginate) =>
        /\ \A i \in 1..3 :
              ( /\ HasLink(data, NextKeys[i])
                /\ \A j \in 1..(i - 1) : ~ HasLink(data, NextKeys[j]) )
              => (pc = "loop" /\ url = data[NextKeys[i]])
        /\ (\A i \in 1..3 : ~ HasLink(data, NextKeys[i])) => pc = "done"

C5_Witness ==
    /\ pc = "loop"
    /\ paginate
    /\ "__next" \in DOMAIN data
    /\ ~ HasLink(data, "__next")
    /\ HasLink(data, "odata.nextLink")
    /\ HasLink(data, "@odata.nextLink")
    /\ url = PyStr(LinkOf("odata.nextLink"))

\* C6: every row returned by get_all_items or get_items_with_limit is the
\* record fetched at its position without its keys that start with an
\* underscore: no key of the row starts with one, and every other key of
\* the record is in the row with the record's value.
C6_RowsAreCleaned ==
    Returned =>
        /\ Len(table.rows) = Len(items)
        /\ \A i \in 1..Len(items) :
              /\ \A k \in DOMAIN table.rows[i] : ~ StartsWith(k, << "_" >>)
              /\ \A k \in DOMAIN items[i] :
                    ~ StartsWith(k, << "_" >>) =>
                        /\ k \in DOMAIN table.rows[i]
                        /\ table.rows[i][k] = items[i][k]

C6_Witness ==
    /\ Returned
    /\ items = << ItemA >>
    /\ DOMAIN table.rows[1] = { KeyTitle, KeyAuthorId }

\* C7: every row returned has only keys of the record it comes from, and
\* none that starts with an underscore, with  odata.  or with  @odata. .
C7_NoMetadataKeyOfAnyForm ==
    Returned =>
        \A i \in 1..Len(table.rows) :
            /\ DOMAIN table.rows[i] \subseteq DOMAIN items[i]
            /\ \A k \in DOMAIN table.rows[i] :
                  /\ ~ StartsWith(k, << "_" >>)
                  /\ ~ StartsWith(k, << "o", "d", "a", "t", "a", "." >>)
                  /\ ~ StartsWith(k, << "@", "o", "d", "a", "t", "a", "." >>)

\* C8: a fetch that returns with zero records returns an empty table and
\* logs the warning, with no error; the warning is logged in no other case.
C8_EmptyResultWarns ==
    /\ Returned =>
          /\ table.built
          /\ error = NoError
          /\ table.warned <=> (items = <<>>)
          /\ (items = <<>>) => (table.rows = <<>> /\ table.columns = {})
    /\ table.warned => (Returned /\ items = <<>>)

C8_Witness ==
    /\ Returned
    /\ Len(requests) >= 2
    /\ items = <<>>
    /\ table.warned
    /\ table.rows = <<>>

\* C9 as stated: a paginated fetch returns only at a page that carries
\* none of the three continuation fields.
C9_ExitsOnlyWithoutFields ==
    (pc = "done" /\ paginate) => \A i \in 1..3 : NextKeys[i] \notin DOMAIN data

\* C9 amended: when the server's chain of pages is finite, fetch_all
\* eventually returns or fails, and when it returns it does so at the first
\* page none of whose three continuation fields holds a non-empty value
\* (a field that is present but empty ends the loop as an absent one does);
\* the loop has no other exit on success.
C9_FiniteChainTerminates ==
    /\ (pc = "loop") ~> (pc \in { "done", "failed" })
    /\ [](( pc = "done" /\ paginate ) =>
            /\ \A i \in 1..3 : ~ HasLink(data, NextKeys[i])
            /\ \A i \in 1..(Len(pages) - 1) : Truthy(pages[i].link))

C9_Witness ==
    /\ pc = "done"
    /\ paginate
    /\ Len(requests) >= 2
    /\ "odata.nextLink" \in DOMAIN data

\* C10: a page whose value is empty or absent raises no error and adds no
\* record, and pagination goes on: if the page holds a link, that link is
\* the next URL, and the records returned are those of all pages.
C10_EmptyPageContinues ==
    /\ (error.kind = "TypeError") =>
          ("value" \in DOMAIN data /\ data["value"].t = "None")
    /\ ( /\ PageParsed
         /\ ("value" \notin DOMAIN data \/ data["value"] = PyList(<<>>)) ) =>
          /\ pages[Len(pages)].value = <<>>
          /\ items = Flatten(SubSeq(pages, 1, Len(pages) - 1))
          /\ (paginate /\ Truthy(ContinuationLink(data))) =>
                (pc = "loop" /\ url = ContinuationLink(data))
    /\ Returned => items = Flatten(pages)

C10_Witness ==
    /\ pc = "done"
    /\ Len(pages) = 2
    /\ pages[1].value = <<>>
    /\ Truthy(pages[1].link)
    /\ requests[2] = pages[1].link.v
    /\ items = << ItemA >>

\* The process runs _fetch_items to its end: it is sequential and each
\* request returns or times out.
LiveSpec == Spec /\ WF_vars(\E resp \in Responses(Len(requests) + 1) : FetchPage(resp))

====
